---- MODULE Spec2Model ----
(***************************************************************************)
(* Model of manage-repos: the config validation of __main__.py, the        *)
(* repository resolver _iter_repos and the seven operation runners of      *)
(* manage_repos.py.  Strings are sequences of one-character strings, so    *)
(* that strip, split, replace, join and the validation pattern are         *)
(* computed character by character, as the Python code computes them.      *)
(***************************************************************************)
EXTENDS Integers, Sequences, FiniteSets, TLC

\* ------------------------------------------------------------------------
\* Bounds
\* ------------------------------------------------------------------------
\* Longest config file explored (lines).
MaxLines == 3
\* Most repository lines (lines matching the URL pattern) in a config file.
MaxRepos == 2

\* ------------------------------------------------------------------------
\* Strings
\* ------------------------------------------------------------------------
Prefix == <<"g","i","t","@","g","i","t","h","u","b",".","c","o","m",":">>
DotGit == <<".","g","i","t">>
Slash == "/"
Whitespace == {" ", "\n", "\t"}

\* The character class [a-zA-Z0-9\.\-\_] of the validation pattern.
NameChars ==
  {"a","b","c","d","e","f","g","h","i","j","k","l","m","n","o","p","q","r",
   "s","t","u","v","w","x","y","z",
   "A","B","C","D","E","F","G","H","I","J","K","L","M","N","O","P","Q","R",
   "S","T","U","V","W","X","Y","Z",
   "0","1","2","3","4","5","6","7","8","9",".","-","_"}

\* str.strip(): drop leading and trailing whitespace.
RECURSIVE LStrip(_)
LStrip(s) ==
  IF s # <<>> /\ Head(s) \in Whitespace THEN LStrip(Tail(s)) ELSE s

RECURSIVE RStrip(_)
RStrip(s) ==
  IF s # <<>> /\ s[Len(s)] \in Whitespace
  THEN RStrip(SubSeq(s, 1, Len(s) - 1)) ELSE s

Strip(s) == RStrip(LStrip(s))

StartsWith(s, p) == Len(s) >= Len(p) /\ SubSeq(s, 1, Len(p)) = p

\* `not line or line.startswith("#")` on the stripped line.
IsBlankOrComment(line) == line = <<>> \/ StartsWith(line, <<"#">>)

\* Position of the last "/" of s, 0 when there is none.
LastSlash(s) ==
  IF \E k \in 1..Len(s) : s[k] = Slash
  THEN CHOOSE k \in 1..Len(s) :
         s[k] = Slash /\ \A j \in (k+1)..Len(s) : s[j] # Slash
  ELSE 0

\* s.split("/")[-1]
LastSegment(s) == SubSeq(s, LastSlash(s) + 1, Len(s))

\* s.replace(".git", ""): every non-overlapping occurrence, left to right.
RECURSIVE RemoveDotGit(_)
RemoveDotGit(s) ==
  IF s = <<>> THEN <<>>
  ELSE IF StartsWith(s, DotGit)
       THEN RemoveDotGit(SubSeq(s, Len(DotGit) + 1, Len(s)))
       ELSE <<Head(s)>> \o RemoveDotGit(Tail(s))

\* os.path.join(a, b)
Join(a, b) ==
  IF b # <<>> /\ b[1] = Slash THEN b
  ELSE IF a = <<>> \/ a[Len(a)] = Slash THEN a \o b
  ELSE a \o <<Slash>> \o b

\* re.match("^git@github.com:[a-zA-Z0-9\.\-\_]+/[a-zA-Z0-9\.\-\_]+\.git$", line)
\* on a stripped line (no trailing newline is left for `$` to absorb).
ReMatch(line) ==
  /\ StartsWith(line, Prefix)
  /\ Len(line) >= Len(Prefix) + 3 + Len(DotGit)
  /\ SubSeq(line, Len(line) - Len(DotGit) + 1, Len(line)) = DotGit
  /\ \E k \in (Len(Prefix) + 2)..(Len(line) - Len(DotGit) - 1) :
        /\ line[k] = Slash
        /\ \A j \in (Len(Prefix) + 1)..(k - 1) : line[j] \in NameChars
        /\ \A j \in (k + 1)..(Len(line) - Len(DotGit)) : line[j] \in NameChars

\* ------------------------------------------------------------------------
\* Inputs: config files, command lines, initial disk
\* ------------------------------------------------------------------------
Url(owner, repo) == Prefix \o owner \o <<Slash>> \o repo \o DotGit

LineA == Url(<<"o">>, <<"a">>)
LineA2 == Url(<<"u">>, <<"a">>)
LineHub ==
  <<" ">> \o Url(<<"o">>, <<"b",".","g","i","t","h","u","b">>) \o <<"\n">>
LineComment == <<"#","c","\n">>
LineBlank == <<" ","\n">>
LineBad == Prefix \o <<"o",Slash,"a">>

\* The raw lines a config file is made of, by identifier: the state holds
\* a file as the sequence of the identifiers of its lines.
ConfigLines == {"A", "A2", "Hub", "Comment", "Blank", "Bad"}
Text ==
  [l \in ConfigLines |->
     CASE l = "A" -> LineA
       [] l = "A2" -> LineA2
       [] l = "Hub" -> LineHub
       [] l = "Comment" -> LineComment
       [] l = "Blank" -> LineBlank
       [] l = "Bad" -> LineBad]

\* Per raw line: line.strip(), the blank-or-comment test, the match against
\* the validation pattern, and the derived name.
Stripped == [l \in ConfigLines |-> Strip(Text[l])]
Ignored == [l \in ConfigLines |-> IsBlankOrComment(Stripped[l])]
Matches == [l \in ConfigLines |-> ReMatch(Stripped[l])]
NameOf == [l \in ConfigLines |-> RemoveDotGit(LastSegment(Stripped[l]))]

ConfigFiles ==
  {f \in UNION {[1..n -> ConfigLines] : n \in 0..MaxLines} :
     Cardinality({i \in 1..Len(f) : Matches[f[i]]}) <= MaxRepos}

Dest == <<"d">>
PatchBare == <<"p">>
PatchNested == <<"s",Slash,"p">>
PatchAbsolute == <<Slash,"p">>

Commands == {"branch", "clone", "patch", "pr", "push", "stage", "sync"}

\* argparse defaults of __main__.py; "None" stands for Python's None and
\* the empty string for a patch path that was not given.
DefaultArgs ==
  [command |-> "None", destination |-> Dest, branch |-> "None",
   set_remote |-> "None", github_user |-> "None", patch |-> <<>>,
   title |-> "None", message |-> "None", files |-> <<".">>,
   push |-> FALSE, branch_default |-> "main", remote |-> "origin"]

ArgChoices ==
  {DefaultArgs}
  \cup {[DefaultArgs EXCEPT !.command = "branch", !.branch = b] :
          b \in {"None", "feat"}}
  \cup {[DefaultArgs EXCEPT !.command = "clone", !.set_remote = sg[1],
                            !.github_user = sg[2]] :
          sg \in {<<"None", "None">>, <<"origin", "None">>,
                  <<"origin", "me">>}}
  \cup {[DefaultArgs EXCEPT !.command = "patch", !.patch = p] :
          p \in {<<>>, PatchBare, PatchNested, PatchAbsolute}}
  \cup {[DefaultArgs EXCEPT !.command = "pr", !.title = t,
                            !.branch_default = d] :
          t \in {"None", "T"}, d \in {"main", "dev"}}
  \cup {[DefaultArgs EXCEPT !.command = "push", !.branch = b] :
          b \in {"None", "feat"}}
  \cup {[DefaultArgs EXCEPT !.command = "stage", !.message = m,
                            !.files = f] :
          m \in {"None", "msg"}, f \in {<<".">>, <<"f1", "f2">>}}
  \cup {[DefaultArgs EXCEPT !.command = "sync", !.push = p] :
          p \in BOOLEAN}

\* Branches a working tree can be on when `pr` asks for the current one.
Branches == {"main", "dev"}

VARIABLES
  config,    \* the config file: the sequence of its raw lines (identifiers)
  args,      \* the parsed command line (RunConfig)
  disk,      \* the set of paths that exist on disk
  disk0,     \* the disk before the first run
  pc,        \* where the process is
  idx,       \* number of config lines _iter_repos has consumed
  cur,       \* index of the line of the entry being processed, 0 if none
  errors,    \* the runner's local ErrorList
  returned,  \* what the runner returned to main: <<TRUE, list>> or <<FALSE>>
  reported,  \* the errors main printed in its summary
  cmds,      \* external commands invoked in this run, in order
  reached,   \* resolver log: per line reached, its name, path and
             \* os.path.exists(path) at that moment
  yielded,   \* indexes of the lines the resolver yielded, in order
  skipped,   \* indexes of the lines the resolver logged as skipped
  run,       \* 1 in the first invocation, 2 in a repeated one
  prev       \* how the first invocation ended and the disk it left, once
             \* repeated

vars == <<config, args, disk, disk0, pc, idx, cur, errors, returned,
          reported, cmds, reached, yielded, skipped, run, prev>>

\* _iter_repos, lines 17-21: the entry derived from config line i.
RepoLine(i) == Stripped[config[i]]
RepoName(i) == NameOf[config[i]]
\* Variant of RepoPath that forgets the destination directory.
RepoPathNoDestination(i) == RepoName(i)
RepoPath(i) == Join(args.destination, RepoName(i))

Exists(p) == p \in disk

\* An external command invoked for the entry of line i: what was run, the
\* entry's path, whether it exited with status 0, and the captured output
\* the program goes on to use ("" when it uses none).
CmdOut(i, c, ok, out) ==
  [repo |-> i, cmd |-> c, path |-> RepoPath(i), ok |-> ok, out |-> out]
Cmd(i, c, ok) == CmdOut(i, c, ok, "")

\* An entry of the ErrorList: the repository and the action that failed.
Err(i, step) == [repo |-> i, step |-> step]

RepoPaths == {Join(Dest, NameOf[l]) : l \in {"A", "Hub"}}

Init ==
  /\ config \in ConfigFiles
  /\ args \in ArgChoices
  /\ \E repos \in SUBSET RepoPaths, destExists \in BOOLEAN,
        patchExists \in BOOLEAN :
       /\ repos # {} => destExists
       /\ patchExists => args.patch # <<>>
       /\ args.patch \in {PatchNested, PatchAbsolute} => patchExists
       /\ disk = repos \cup (IF destExists THEN {Dest} ELSE {})
                       \cup (IF patchExists THEN {args.patch} ELSE {})
  /\ disk0 = disk
  /\ pc = "start"
  /\ idx = 0
  /\ cur = 0
  /\ errors = <<>>
  /\ returned = <<FALSE>>
  /\ reported = <<>>
  /\ cmds = <<>>
  /\ reached = <<>>
  /\ yielded = <<>>
  /\ skipped = <<>>
  /\ run = 1
  /\ prev = [pc |-> "none", disk |-> {}]

\* ------------------------------------------------------------------------
\* __main__.py
\* ------------------------------------------------------------------------
\* Variant of ConfigOk that validates the first line only.
ConfigOkFirstLine ==
  \A i \in 1..Len(config) :
    i > 1 \/ Ignored[config[i]] \/ Matches[config[i]]

\* check_config: every stripped, non-blank, non-comment line must match.
ConfigOk ==
  \A i \in 1..Len(config) : Ignored[config[i]] \/ Matches[config[i]]

\* main, line 183: check_config(args.config); sys.exit(1) on a bad line.
CheckConfig ==
  /\ pc = "start"
  /\ pc' = IF ConfigOk THEN "dispatch" ELSE "fatal"
  /\ UNCHANGED <<config, args, disk, disk0, idx, cur, errors, returned,
                 reported, cmds, reached, yielded, skipped, run, prev>>

\* The up-front parameter checks of the runner main dispatches to
\* (lines 186-201), up to the first iteration of its loop.
MissingParameter ==
  \/ args.command = "clone" /\ args.set_remote # "None"
                            /\ args.github_user = "None"
  \/ args.command = "patch" /\ (args.patch = <<>> \/ ~Exists(args.patch))
  \/ args.command = "pr" /\ args.title = "None"
  \/ args.command = "push" /\ args.branch = "None"
  \/ args.command = "stage" /\ args.message = "None"

Begin ==
  /\ pc = "dispatch"
  /\ pc' = IF args.command = "None" THEN "done"
           ELSE IF MissingParameter THEN "fatal" ELSE "iter"
  /\ disk' = IF args.command = "clone" /\ ~MissingParameter
             THEN disk \cup {args.destination} ELSE disk
  /\ errors' = <<>>
  /\ UNCHANGED <<config, args, disk0, idx, cur, returned, reported, cmds,
                 reached, yielded, skipped, run, prev>>

\* ------------------------------------------------------------------------
\* manage_repos.py: the resolver
\* ------------------------------------------------------------------------
\* The existence filter, lines 25-32: clone skips what exists, every other
\* command skips what does not.
\* Variant of Filtered without the existence test of the other commands.
FilteredOthersAll(there) == IF args.command = "clone" THEN there ELSE FALSE
\* Variant of Filtered without the existence test of clone.
FilteredCloneAll(there) == IF args.command = "clone" THEN FALSE ELSE ~there

Filtered(there) == IF args.command = "clone" THEN there ELSE ~there

\* One line of the generator _iter_repos: skip it (blank, comment, or the
\* existence filter of the command) or yield its entry to the loop body.
IterRepos ==
  /\ pc = "iter"
  /\ idx < Len(config)
  /\ LET i == idx + 1
         there == Exists(RepoPath(i))
     IN /\ idx' = i
        /\ IF Ignored[config[i]]
           THEN UNCHANGED <<pc, cur, reached, yielded, skipped>>
           ELSE /\ reached' = Append(reached,
                              [line |-> i, name |-> RepoName(i),
                               path |-> RepoPath(i), existed |-> there])
                /\ IF Filtered(there)
                   THEN /\ skipped' = Append(skipped, i)
                        /\ UNCHANGED <<pc, cur, yielded>>
                   ELSE /\ yielded' = Append(yielded, i)
                        /\ cur' = i
                        /\ pc' = "body"
                        /\ UNCHANGED skipped
  /\ UNCHANGED <<config, args, disk, disk0, errors, returned, reported,
                 cmds, run, prev>>

\* ------------------------------------------------------------------------
\* manage_repos.py: the loop bodies, one repository per step
\* ------------------------------------------------------------------------
\* The end of one loop iteration: the commands it invoked, the errors it
\* appended, the disk it left, and where control goes ("iter" for the next
\* repository, "crashed" for an exception nothing catches).
Step(newCmds, newErrors, newDisk, nextPc) ==
  /\ cmds' = cmds \o newCmds
  /\ errors' = errors \o newErrors
  /\ disk' = newDisk
  /\ pc' = nextPc
  /\ cur' = IF nextPc = "iter" THEN 0 ELSE cur
  /\ UNCHANGED <<config, args, disk0, idx, returned, reported, reached,
                 yielded, skipped, run, prev>>

\* branch, lines 41-53.  With no --branch the argument vector holds None
\* and check_call raises TypeError before any process is started.
BranchBody ==
  /\ pc = "body" /\ args.command = "branch"
  /\ IF args.branch = "None"
     THEN Step(<<>>, <<>>, disk, "crashed")
     ELSE \E ok \in BOOLEAN :
            Step(<<Cmd(cur, "git switch -c", ok)>>,
                 IF ok THEN <<>> ELSE <<Err(cur, "git switch -c")>>, disk, "iter")

\* clone, lines 78-119.  A failed clone may or may not leave the target
\* directory behind; `git remote -v` is called outside any try block.
CloneBody ==
  /\ pc = "body" /\ args.command = "clone"
  /\ LET i == cur
         cloned == disk \cup {RepoPath(i)}
         c == Cmd(i, "git clone", TRUE)
     IN \/ \E left \in BOOLEAN :
             Step(<<Cmd(i, "git clone", FALSE)>>, <<Err(i, "git clone")>>,
                  IF left THEN cloned ELSE disk, "iter")
        \/ /\ args.set_remote # "None"
           /\ Step(<<c, Cmd(i, "git remote rename", FALSE)>>,
                   <<Err(i, "git remote rename")>>, cloned, "iter")
        \/ /\ args.set_remote # "None"
           /\ Step(<<c, Cmd(i, "git remote rename", TRUE),
                     Cmd(i, "git remote add", FALSE)>>,
                   <<Err(i, "git remote add")>>, cloned, "iter")
        \/ \E ok \in BOOLEAN :
             Step((IF args.set_remote # "None"
                   THEN <<c, Cmd(i, "git remote rename", TRUE),
                          Cmd(i, "git remote add", TRUE)>>
                   ELSE <<c>>) \o <<Cmd(i, "git remote -v", ok)>>,
                  <<>>, cloned, IF ok THEN "iter" ELSE "crashed")

\* Where shutil.copy(args.patch, path) puts the copy.
PatchCopy(i) == Join(RepoPath(i), LastSegment(args.patch))

\* patch, lines 139-152.  shutil.copy and os.remove raise FileNotFoundError,
\* which nothing catches, when their file is not there.
PatchBody ==
  /\ pc = "body" /\ args.command = "patch"
  /\ LET i == cur
         copied == disk \cup {PatchCopy(i)}
         target == Join(RepoPath(i), args.patch)
     IN IF ~Exists(args.patch)
        THEN Step(<<>>, <<>>, disk, "crashed")
        ELSE \/ Step(<<Cmd(i, "git apply", FALSE)>>, <<Err(i, "git apply")>>,
                     copied, "iter")
             \/ Step(<<Cmd(i, "git apply", TRUE)>>, <<>>,
                     copied \ {target},
                     IF target \in copied THEN "iter" ELSE "crashed")

\* pr, lines 166-213.  subprocess.run does not raise on a non-zero exit, so
\* a failed `git branch --show-current` just yields the empty output; the
\* statement on line 184 applies unary + to a string (TypeError).
PrBody ==
  /\ pc = "body" /\ args.command = "pr"
  /\ \E ok \in BOOLEAN, b \in Branches \cup {""} :
       /\ ok = (b # "")
       /\ LET show == CmdOut(cur, "git branch --show-current", ok, b)
          IN IF b = "main"
             THEN Step(<<show>>, <<>>, disk, "crashed")
             ELSE \E created \in BOOLEAN :
                    Step(<<show, Cmd(cur, "gh pr new", created)>>, <<>>,
                         disk, "iter")

\* push, lines 225-235.
PushBody ==
  /\ pc = "body" /\ args.command = "push"
  /\ \E ok \in BOOLEAN :
       Step(<<Cmd(cur, "git push", ok)>>,
            IF ok THEN <<>> ELSE <<Err(cur, "git push")>>, disk, "iter")

\* stage, lines 253-273: the inner loop over args.files from file k on.
\* `continue` after a failed add goes on with the next file.  The exit
\* status of `git status --porcelain` is never read (subprocess.run, output
\* printed only), so that command is logged without an outcome of its own.
RECURSIVE StageAddCmds(_, _, _)
StageAddCmds(i, k, addOk) ==
  IF k > Len(args.files) THEN <<>>
  ELSE (IF args.files[k] = "."
        THEN <<Cmd(i, "git status", TRUE)>> ELSE <<>>)
       \o <<Cmd(i, "git add", addOk[k])>>
       \o StageAddCmds(i, k + 1, addOk)

RECURSIVE StageAddErrors(_, _, _)
StageAddErrors(i, k, addOk) ==
  IF k > Len(args.files) THEN <<>>
  ELSE (IF addOk[k] THEN <<>> ELSE <<Err(i, "git add")>>)
       \o StageAddErrors(i, k + 1, addOk)

\* stage, lines 252-287.
StageBody ==
  /\ pc = "body" /\ args.command = "stage"
  /\ \E addOk \in [1..Len(args.files) -> BOOLEAN], commitOk \in BOOLEAN :
       Step(StageAddCmds(cur, 1, addOk)
              \o <<Cmd(cur, "git commit", commitOk)>>,
            StageAddErrors(cur, 1, addOk)
              \o (IF commitOk THEN <<>> ELSE <<Err(cur, "git commit")>>),
            disk, "iter")

\* sync, lines 301-342.  `git switch` is called outside any try block.
SyncBody ==
  /\ pc = "body" /\ args.command = "sync"
  /\ LET i == cur
         switch == Cmd(i, "git switch", TRUE)
         fetch == Cmd(i, "git fetch", TRUE)
         rebase == Cmd(i, "git rebase", TRUE)
     IN \/ Step(<<Cmd(i, "git switch", FALSE)>>, <<>>, disk, "crashed")
        \/ Step(<<switch, Cmd(i, "git fetch", FALSE)>>, <<Err(i, "git fetch")>>,
                disk, "iter")
        \/ Step(<<switch, fetch, Cmd(i, "git rebase", FALSE)>>,
                <<Err(i, "git rebase")>>, disk, "iter")
        \/ /\ ~args.push
           /\ Step(<<switch, fetch, rebase>>, <<>>, disk, "iter")
        \/ /\ args.push
           /\ \E ok \in BOOLEAN :
                Step(<<switch, fetch, rebase, Cmd(i, "git push", ok)>>,
                     IF ok THEN <<>> ELSE <<Err(i, "git push")>>, disk, "iter")

\* What the runner hands back once the resolver is exhausted: every runner
\* ends with `return errors` except pr, which falls off its end (None).
Handback(list) == IF args.command = "pr" THEN <<FALSE>> ELSE <<TRUE, list>>

Return ==
  /\ pc = "iter"
  /\ idx = Len(config)
  /\ returned' = Handback(errors)
  /\ pc' = "returned"
  /\ UNCHANGED <<config, args, disk, disk0, idx, cur, errors, reported,
                 cmds, reached, yielded, skipped, run, prev>>

\* main, lines 203-207: errors = [returned]; the summary is printed when
\* the returned value is a non-empty list.
Report ==
  /\ pc = "returned"
  /\ reported' = IF returned[1] /\ returned[2] # <<>>
                 THEN returned[2] ELSE <<>>
  /\ pc' = "done"
  /\ UNCHANGED <<config, args, disk, disk0, idx, cur, errors, returned,
                 cmds, reached, yielded, skipped, run, prev>>

\* The operator runs the same clone command line a second time.
Rerun ==
  /\ pc \in {"done", "fatal", "crashed"}
  /\ args.command = "clone"
  /\ run = 1
  /\ run' = 2
  /\ prev' = [pc |-> pc, disk |-> disk]
  /\ pc' = "start"
  /\ idx' = 0
  /\ cur' = 0
  /\ errors' = <<>>
  /\ returned' = <<FALSE>>
  /\ reported' = <<>>
  /\ cmds' = <<>>
  /\ reached' = <<>>
  /\ yielded' = <<>>
  /\ skipped' = <<>>
  /\ UNCHANGED <<config, args, disk, disk0>>

Next ==
  \/ CheckConfig
  \/ Begin
  \/ IterRepos
  \/ BranchBody
  \/ CloneBody
  \/ PatchBody
  \/ PrBody
  \/ PushBody
  \/ StageBody
  \/ SyncBody
  \/ Return
  \/ Report
  \/ Rerun

Spec == Init /\ [][Next]_vars

\* Process exit status: sys.exit(1) and an uncaught exception both give 1.
ExitStatus == IF pc \in {"fatal", "crashed"} THEN 1 ELSE 0

TypeOK ==
  /\ pc \in {"start", "dispatch", "iter", "body", "returned", "done",
             "fatal", "crashed"}
  /\ idx \in 0..Len(config)
  /\ cur \in 0..Len(config)
  /\ run \in 1..2

\* ------------------------------------------------------------------------
\* Vocabulary of the properties
\* ------------------------------------------------------------------------
Indexes(n) == [k \in 1..n |-> k]

\* Line i is neither blank nor a comment.
IsContent(i) == ~Ignored[config[i]]
ContentLines == {i \in 1..Len(config) : IsContent(i)}

\* Some non-blank, non-comment line does not match the URL pattern.
HasMalformedLine ==
  \E i \in 1..Len(config) :
    /\ Stripped[config[i]] # <<>>
    /\ Stripped[config[i]][1] # "#"
    /\ ~Matches[config[i]]

ExistedWhenReached(i) ==
  \E k \in DOMAIN reached : reached[k].line = i /\ reached[k].existed
MissingWhenReached(i) ==
  \E k \in DOMAIN reached : reached[k].line = i /\ ~reached[k].existed

IsClone(c) == c.cmd = "git clone"
CloneAttempts == SelectSeq(cmds, IsClone)

\* The failing steps of the run: commands that exited with a non-zero
\* status.
Failed(c) == ~c.ok
FailedSteps == Len(SelectSeq(cmds, Failed))

\* The list handed back to main, None read as the empty list.
HandedBack == IF returned[1] THEN returned[2] ELSE <<>>

Ended == pc \in {"returned", "done"}

\* ------------------------------------------------------------------------
\* C1
\* ------------------------------------------------------------------------
\* C1: whatever commands fail, the runner goes through every remaining
\* repository (no failure ends the process), and the ErrorList handed back
\* to the caller has exactly one entry per failing step.
C1_KeepGoingAndCount ==
  args.command \in Commands =>
    /\ (FailedSteps > 0 => pc # "crashed")
    /\ (Ended =>
          /\ idx = Len(config)
          /\ Len(HandedBack) = FailedSteps)

\* ------------------------------------------------------------------------
\* C2
\* ------------------------------------------------------------------------
\* C2: for every command other than clone, the resolver yields exactly the
\* non-blank, non-comment lines whose localPath exists when the line is
\* reached, in file order; the other such lines are logged as skipped and
\* no external command is invoked for them.
C2_YieldsExistingOnly ==
  args.command \notin {"clone", "None"} =>
    /\ yielded = SelectSeq(Indexes(idx),
                   LAMBDA i : IsContent(i) /\ ExistedWhenReached(i))
    /\ skipped = SelectSeq(Indexes(idx),
                   LAMBDA i : IsContent(i) /\ MissingWhenReached(i))
    /\ \A k \in DOMAIN reached :
         /\ reached[k].path = Join(args.destination, reached[k].name)
         /\ reached[k].existed = (reached[k].path \in disk)
    /\ \A k \in DOMAIN cmds : ExistedWhenReached(cmds[k].repo)
    /\ (Ended => idx = Len(config))

\* A finished push that yielded one line, skipped another and ran a command.
C2_Witness ==
  /\ args.command = "push"
  /\ pc = "done"
  /\ Len(yielded) = 1
  /\ Len(skipped) = 1
  /\ Len(cmds) = 1

\* ------------------------------------------------------------------------
\* C3
\* ------------------------------------------------------------------------
NoPreexisting == \A i \in ContentLines : RepoPath(i) \notin disk0
DistinctNames ==
  \A i, j \in ContentLines : i # j => RepoName(i) # RepoName(j)
FirstCloneRun ==
  args.command = "clone" /\ run = 1 /\ ~HasMalformedLine /\ NoPreexisting

\* C3 as stated: with N valid lines (duplicates and same-name lines
\* included) and no pre-existing local path, a clone run attempts exactly N
\* clones, one per line, each at destination/name.
C3_Original ==
  (FirstCloneRun /\ Ended) =>
    /\ Len(CloneAttempts) = Cardinality(ContentLines)
    /\ \A k \in DOMAIN CloneAttempts :
         CloneAttempts[k].path
           = Join(args.destination, RepoName(CloneAttempts[k].repo))

\* C3 amended: with no pre-existing local path, clone attempts at most one
\* clone per line, each at destination/name and in file order: exactly the
\* lines reached whose localPath does not exist at that moment; the others
\* are skipped, among them every later line whose path an earlier
\* successful clone created.  A run that reaches the end of the file has
\* attempted N minus the number of skipped lines, which is N for the
\* files of this model whose lines derive pairwise distinct names.
C3_Amended ==
  FirstCloneRun =>
    /\ \A k \in DOMAIN CloneAttempts :
         CloneAttempts[k].path
           = Join(args.destination, RepoName(CloneAttempts[k].repo))
    /\ [k \in DOMAIN CloneAttempts |-> CloneAttempts[k].repo]
         = SelectSeq(Indexes(idx),
             LAMBDA i : /\ IsContent(i)
                        /\ MissingWhenReached(i)
                        /\ ~(pc = "body" /\ i = cur))
    /\ \A k \in DOMAIN CloneAttempts : \A j \in 1..idx :
         (/\ CloneAttempts[k].ok
          /\ j > CloneAttempts[k].repo
          /\ IsContent(j)
          /\ RepoPath(j) = CloneAttempts[k].path)
           => \E n \in DOMAIN skipped : skipped[n] = j
    /\ (Ended =>
          Len(CloneAttempts) + Len(skipped) = Cardinality(ContentLines))
    /\ (Ended /\ DistinctNames =>
          Len(CloneAttempts) = Cardinality(ContentLines))

\* A finished first clone run over two lines with distinct names.
C3_Witness ==
  /\ FirstCloneRun
  /\ pc = "done"
  /\ DistinctNames
  /\ Cardinality(ContentLines) = 2
  /\ Len(CloneAttempts) = 2

\* ------------------------------------------------------------------------
\* C4
\* ------------------------------------------------------------------------
\* C4 as stated: clone skips every entry whose localPath exists, and a
\* second clone run attempts zero clones and leaves the disk unchanged
\* (read here for a second run that follows a completed first run).
C4_Original ==
  args.command = "clone" =>
    /\ \A k \in DOMAIN CloneAttempts :
         MissingWhenReached(CloneAttempts[k].repo)
    /\ (run = 2 /\ prev.pc = "done" => CloneAttempts = <<>> /\ disk = prev.disk)

\* C4 amended: clone skips (and logs) every entry whose localPath exists
\* and attempts no clone for it; a second run attempts no clone for an
\* entry whose localPath the first run left on disk, and when the first
\* run left every entry's localPath on disk the second run invokes no
\* command at all and leaves the disk unchanged.
C4_Amended ==
  args.command = "clone" =>
    /\ \A k \in DOMAIN CloneAttempts :
         MissingWhenReached(CloneAttempts[k].repo)
    /\ skipped = SelectSeq(Indexes(idx),
                   LAMBDA i : IsContent(i) /\ ExistedWhenReached(i))
    /\ (run = 2 =>
          \A k \in DOMAIN CloneAttempts :
            CloneAttempts[k].path \notin prev.disk)
    /\ (run = 2 /\ (\A i \in ContentLines : RepoPath(i) \in prev.disk) =>
          cmds = <<>> /\ disk = prev.disk)

\* A finished second run that skipped two entries and cloned nothing.
C4_Witness ==
  /\ args.command = "clone"
  /\ run = 2
  /\ pc = "done"
  /\ Len(skipped) = 2
  /\ cmds = <<>>
  /\ disk = prev.disk

\* ------------------------------------------------------------------------
\* C5
\* ------------------------------------------------------------------------
\* The required parameter of the command is missing on the command line.
RequiredParameterMissing ==
  \/ args.command \in {"branch", "push"} /\ args.branch = "None"
  \/ args.command = "stage" /\ args.message = "None"
  \/ args.command = "patch" /\ (args.patch = <<>> \/ args.patch \notin disk0)
  \/ args.command = "pr" /\ args.title = "None"
  \/ args.command = "clone" /\ args.set_remote # "None"
                            /\ args.github_user = "None"

\* C5: when the required parameter of the command is missing, the process
\* terminates fatally with non-zero status before the resolver is iterated
\* and before any external command is invoked on any repository.
C5_FatalBeforeAnyRepository ==
  RequiredParameterMissing =>
    /\ pc \in {"start", "dispatch", "fatal"}
    /\ (pc = "fatal" => ExitStatus = 1)
    /\ idx = 0
    /\ reached = <<>>
    /\ cmds = <<>>

\* ------------------------------------------------------------------------
\* C6
\* ------------------------------------------------------------------------
\* C6: a non-blank, non-comment config line that does not match the URL
\* pattern, wherever it stands in the file and whatever the command, ends
\* the process fatally before any operation runs: no line is resolved, no
\* external command is invoked and the disk is left as it was.
C6_MalformedLineIsFatal ==
  HasMalformedLine =>
    /\ pc \in {"start", "fatal"}
    /\ idx = 0
    /\ reached = <<>>
    /\ yielded = <<>>
    /\ cmds = <<>>
    /\ disk = disk0

\* A push with its branch given, over a cloned repository, stopped by a
\* malformed last line that follows two well-formed ones.
C6_Witness ==
  /\ pc = "fatal"
  /\ args.command = "push"
  /\ args.branch # "None"
  /\ Len(config) = 3
  /\ config[1] = "A"
  /\ Matches[config[2]]
  /\ config[3] = "Bad"
  /\ Join(Dest, <<"a">>) \in disk

\* ------------------------------------------------------------------------
\* C7
\* ------------------------------------------------------------------------
IsShowCurrent(c) == c.cmd = "git branch --show-current"

\* C7: pr on a repository whose current branch equals the configured
\* default branch records exactly one error for that repository, does not
\* invoke the hosting CLI for it and goes on to the next repository.
C7_DefaultBranchRecordsError ==
  args.command = "pr" =>
    \A k \in DOMAIN cmds :
      (IsShowCurrent(cmds[k]) /\ cmds[k].out = args.branch_default) =>
        /\ pc # "crashed"
        /\ Len(SelectSeq(errors, LAMBDA e : e.repo = cmds[k].repo)) = 1
        /\ \A j \in DOMAIN cmds :
             cmds[j].repo = cmds[k].repo => cmds[j].cmd # "gh pr new"

\* ------------------------------------------------------------------------
\* C8
\* ------------------------------------------------------------------------
\* C8: in patch, once the runner has moved on from a repository, the copy
\* of the patch file placed in its working tree is gone, whether the apply
\* step succeeded or failed.
C8_PatchCopyRemoved ==
  (args.command = "patch" /\ pc \in {"iter", "returned", "done"}) =>
    \A k \in DOMAIN yielded : PatchCopy(yielded[k]) \notin disk

\* ------------------------------------------------------------------------
\* C9
\* ------------------------------------------------------------------------
\* The failure of command k was recorded in the ErrorList.
Recorded(k) ==
  /\ ~cmds[k].ok
  /\ \E e \in DOMAIN errors : errors[e] = Err(cmds[k].repo, cmds[k].cmd)

\* C9: once a command has failed for a repository and the error has been
\* recorded, no further external command is invoked for that repository in
\* the run.
C9_NoCommandAfterRecordedFailure ==
  \A k \in DOMAIN cmds :
    Recorded(k) =>
      \A j \in DOMAIN cmds : j > k => cmds[j].repo # cmds[k].repo

\* ------------------------------------------------------------------------
\* C10
\* ------------------------------------------------------------------------
\* The substring after the final "/", without a trailing ".git".
SuffixStrippedName(line) ==
  LET seg == LastSegment(line)
  IN IF Len(seg) >= Len(DotGit)
        /\ SubSeq(seg, Len(seg) - Len(DotGit) + 1, Len(seg)) = DotGit
     THEN SubSeq(seg, 1, Len(seg) - Len(DotGit))
     ELSE seg

\* C10: for every accepted line the resolver reaches, the derived name is
\* the substring after the final "/" with only the trailing ".git" removed,
\* and the derived path is the destination joined with that name.
C10_NameIsSuffixStripped ==
  \A k \in DOMAIN reached :
    LET line == Stripped[config[reached[k].line]]
    IN /\ reached[k].name = SuffixStrippedName(line)
       /\ reached[k].path = Join(args.destination, SuffixStrippedName(line))

====
